---------------------------- MODULE Spec2Model ----------------------------
(***************************************************************************)
(* A model of rust-overlaps: the candidate generation step (search.rs),    *)
(* the verification step (verification.rs), the data model (structs.rs)    *)
(* and the preparation of the text (prepare.rs).                           *)
(*                                                                         *)
(* Indices are 0-based as in the source: the text, the suffix array and    *)
(* the BWT are functions over 0..len-1.  Byte strings are sequences of     *)
(* one-character strings; ByteOf gives the byte value that orders them.    *)
(***************************************************************************)
EXTENDS Integers, Sequences, FiniteSets, TLC

\* ------------------------------------------------------------------ bounds
\* The longest input sequence.
MaxSeqLen == 3
\* The most entries the stand-alone Solution set (SpecSet) is filled with.
MaxSetSize == 2
\* The longest range the stand-alone distance (SpecDist) is computed on.
MaxPartLen == 3

\* ---------------------------------------------------------------- helpers
Max(a, b) == IF a >= b THEN a ELSE b
Min(a, b) == IF a <= b THEN a ELSE b

\* a sequence s as a 0-based function
ZeroBased(s) == [i \in 0..(Len(s) - 1) |-> s[i + 1]]
\* the number of elements of a 0-based function
Size(f) == Cardinality(DOMAIN f)
\* the slice f[from..to) of a 0-based function, as a sequence
Slice(f, from, to) == [i \in 1..(to - from) |-> f[from + i - 1]]
Reverse(s) == [i \in 1..Len(s) |-> s[Len(s) + 1 - i]]

\* floor(num/den) and ceil(num/den) for num >= 0, den > 0
Floor(num, den) == num \div den
Ceil(num, den) == (num + den - 1) \div den

\* the byte value of a character: the order of the index's alphabet
ByteOf(c) ==
    CASE c = "#" -> 35
      [] c = "$" -> 36
      [] c = "A" -> 65
      [] c = "C" -> 67
      [] c = "G" -> 71
      [] c = "N" -> 78
      [] c = "T" -> 84

READ_ERR == "N"

\* ------------------------------------------------- prepare.rs: the text
complement_u8(x) ==
    CASE x = "A" -> "T"
      [] x = "C" -> "G"
      [] x = "G" -> "C"
      [] x = "T" -> "A"
      [] x = "N" -> "N"

\* str_vec.retain(|c| *c != 'N')
RetainNotN(s) == SelectSeq(s, LAMBDA c : c # "N")

\* The strings one record adds to the text, in id order: the sequence
\* reversed and, with reversals, the complement of the sequence (the reversed
\* string reversed back, each character complemented).
RecordStrings(rec, cfg) ==
    LET seq     == IF cfg.n_alphabet THEN rec.seq ELSE RetainNotN(rec.seq)
        str_vec == Reverse(seq)
        back    == Reverse(str_vec)
        comp    == [i \in 1..Len(back) |-> complement_u8(back[i])]
    IN  IF cfg.reversals
        THEN << [name |-> rec.name, str |-> str_vec],
                [name |-> rec.name, str |-> comp] >>
        ELSE << [name |-> rec.name, str |-> str_vec] >>

RECURSIVE AllStrings(_, _)
AllStrings(records, cfg) ==
    IF records = << >> THEN << >>
    ELSE RecordStrings(Head(records), cfg) \o AllStrings(Tail(records), cfg)

\* text.push('$'); index = text.len(); text.extend(str_vec), for every string
RECURSIVE TextOf(_)
TextOf(strings) ==
    IF strings = << >> THEN << >>
    ELSE << "$" >> \o Head(strings).str \o TextOf(Tail(strings))

RECURSIVE IndexOf(_, _)
IndexOf(strings, at) ==
    IF strings = << >> THEN << >>
    ELSE << at + 1 >> \o IndexOf(Tail(strings), at + 1 + Len(Head(strings).str))

read_and_prepare(records, cfg) ==
    LET strings == AllStrings(records, cfg)
    IN  [ text           |-> ZeroBased(TextOf(strings) \o << "#" >>),
          id2name_vec    |-> ZeroBased([i \in 1..Len(strings) |-> strings[i].name]),
          id2index_bdmap |-> ZeroBased(IndexOf(strings, 0)),
          num_ids        |-> Len(strings) ]

\* ------------------------------------------------- structs.rs: Maps
get_end_index(m, id) ==
    IF id = m.num_ids - 1
    THEN Size(m.text) - 1
    ELSE m.id2index_bdmap[id + 1] - 1

get_length(m, id) == get_end_index(m, id) - m.id2index_bdmap[id]

get_string(m, id) == Slice(m.text, m.id2index_bdmap[id], get_end_index(m, id))

\* returns <<id, index>>: the entry with the greatest index <= the position,
\* starting from best = (0, 1)
find_occurrence_containing(m, index) ==
    LET ok == { id \in 0..(m.num_ids - 1) :
                  m.id2index_bdmap[id] <= index /\ m.id2index_bdmap[id] > 1 }
    IN  IF ok = {} THEN << 0, 1 >>
        ELSE LET id == CHOOSE i \in ok :
                         \A j \in ok : m.id2index_bdmap[j] <= m.id2index_bdmap[i]
             IN  << id, m.id2index_bdmap[id] >>

get_name_for(m, id) == m.id2name_vec[id]

\* the id whose string starts at the position (the reverse direction of the
\* bidirectional map)
id_for(m, position) ==
    CHOOSE id \in 0..(m.num_ids - 1) : m.id2index_bdmap[id] = position

\* ----------------------------------- the index: suffix array, BWT, less, occ
\* whether the suffix of the text at i sorts before the suffix at j
RECURSIVE SuffixLess(_, _, _)
SuffixLess(bytes, i, j) ==
    IF i = j THEN FALSE
    ELSE IF bytes[i] # bytes[j] THEN bytes[i] < bytes[j]
    ELSE SuffixLess(bytes, i + 1, j + 1)

\* the suffix p put in its place among sorted suffixes
RECURSIVE SortInsert(_, _, _)
SortInsert(bytes, sorted, p) ==
    IF sorted = << >> THEN << p >>
    ELSE IF SuffixLess(bytes, p, Head(sorted)) THEN << p >> \o sorted
    ELSE << Head(sorted) >> \o SortInsert(bytes, Tail(sorted), p)

RECURSIVE SortedSuffixes(_, _)
SortedSuffixes(bytes, k) ==
    IF k < 0 THEN << >> ELSE SortInsert(bytes, SortedSuffixes(bytes, k - 1), k)

SuffixArray(text) ==
    LET n == Size(text)
        bytes == [i \in 0..(n - 1) |-> ByteOf(text[i])]
    IN  ZeroBased(SortedSuffixes(bytes, n - 1))

Bwt(text, suffixes) ==
    LET n == Size(text)
    IN  [r \in 0..(n - 1) |->
            IF suffixes[r] = 0 THEN text[n - 1] ELSE text[suffixes[r] - 1]]

\* less(a): the number of text positions whose character sorts before a
less(text, a) ==
    Cardinality({ i \in DOMAIN text : ByteOf(text[i]) < ByteOf(a) })

\* occ(r, a): the number of occurrences of a in bwt[0..r]
occ(bwtv, r, a) == Cardinality({ i \in 0..r : bwtv[i] = a })

\* Interval::occ(sa): the text positions sa[lower..upper), upper exclusive
IntervalOcc(suffixes, lower, upper) == { suffixes[r] : r \in lower..(upper - 1) }

\* ------------------------------------------------- the configuration
\* err_rate is the fraction err_num / err_den, 0 <= err_rate < 1
alphabet(cfg) ==
    IF cfg.n_alphabet THEN << "A", "C", "G", "N", "T" >> ELSE << "A", "C", "G", "T" >>

\* ------------------------------------------------- the filter policy
\* The partition of the pattern into blocks: blocks of thresh characters, the
\* last one shorter when the length is no multiple of thresh.
RECURSIVE get_block_lengths(_, _)
get_block_lengths(patt_len, thresh) ==
    IF patt_len <= 0 THEN << >>
    ELSE IF patt_len <= thresh THEN << patt_len >>
    ELSE << thresh >> \o get_block_lengths(patt_len - thresh, thresh)

\* the errors permitted once completed_blocks blocks of the filter are matched
filter_func(completed_blocks, patt_blocks) == completed_blocks

candidate_condition(generous_overlap_len, completed_blocks, thresh, errors) ==
    completed_blocks > 0 /\ generous_overlap_len >= thresh

\* ------------------------------------------------- useful: orientation
companion_id(id) == IF id % 2 = 0 THEN id + 1 ELSE id - 1

for_reversed_string(id) == id % 2 = 1

relative_orientation(id_a, id_b, reversals) ==
    IF reversals /\ (id_a % 2) # (id_b % 2) THEN "Reversed" ELSE "Normal"

\* ------------------------------------------------- search.rs
\* the block id of every pattern position: block 0 covers the last positions
RECURSIVE BlockIdsInOrder(_, _)
BlockIdsInOrder(block_lengths, id) ==
    IF block_lengths = << >> THEN << >>
    ELSE [i \in 1..Head(block_lengths) |-> id]
            \o BlockIdsInOrder(Tail(block_lengths), id + 1)

get_block_id_lookup(block_lengths) ==
    ZeroBased(Reverse(BlockIdsInOrder(block_lengths, 0)))

smaller(a) ==
    CASE a = "A" -> "a"
      [] a = "C" -> "c"
      [] a = "N" -> "n"
      [] a = "G" -> "g"
      [] a = "T" -> "t"
      [] OTHER   -> "?"

allows_deletion(op) == op = "Deletion" \/ op = "Substitution"

\* a plausible slip: an Insertion is allowed after a Deletion too
allows_insertion_AfterDeletion(op) == op \in { "Insertion", "Substitution", "Deletion" }

allows_insertion(op) == op = "Insertion" \/ op = "Substitution"

allows_candidates(op) == op = "Initial" \/ op = "Substitution"

\* #[derive(Hash, PartialEq, Eq)] on Candidate: every field takes part
CandidateEq(c, d) ==
    /\ c.id_b = d.id_b
    /\ c.overlap_a = d.overlap_a
    /\ c.overlap_b = d.overlap_b
    /\ c.overhang_left_a = d.overhang_left_a
    /\ c.debug_str = d.debug_str

\* HashSet<Candidate>::insert: an entry equal to c keeps its place
CandidateInsert(set, c) ==
    IF \E d \in set : CandidateEq(d, c) THEN set ELSE set \cup {c}

RECURSIVE CandidateInsertAll(_, _)
CandidateInsertAll(set, new) ==
    IF new = {} THEN set
    ELSE LET c == CHOOSE x \in new : TRUE
         IN  CandidateInsertAll(CandidateInsert(set, c), new \ {c})

\* a plausible slip: the hits on ids below the query are kept
SkipsId_KeepsLower(cfg, id_a, id_b) ==
    \/ id_b = id_a
    \/ (cfg.edit_distance /\ id_a = companion_id(id_a))

\* a plausible slip: in edit-distance mode the hits on ids above the query are
\* dropped, those below are kept
SkipsId_DropsHigher(cfg, id_a, id_b) ==
    \/ id_b = id_a
    \/ (cfg.edit_distance /\ id_a = companion_id(id_a))
    \/ (cfg.edit_distance /\ id_b > id_a)

\* the ids the materializer skips: self, and in edit-distance mode a query
\* that is its own companion, and those below the query
SkipsId(cfg, id_a, id_b) ==
    \/ id_b = id_a
    \/ (cfg.edit_distance /\ id_a = companion_id(id_a))
    \/ (cfg.edit_distance /\ id_a > id_b)

\* a plausible slip: the bounds of edit-distance mode in both modes
PossibleB2s_Stretched(cfg, a2, b_match_len, b_len) ==
    Max(Ceil(a2 * (cfg.err_den - cfg.err_num), cfg.err_den), b_match_len)
      .. Min(Floor(a2 * cfg.err_den, cfg.err_den - cfg.err_num), b_len)

\* the bounds of b2, the overlap length on the matched side
PossibleB2s(cfg, a2, b_match_len, b_len) ==
    IF ~cfg.edit_distance
    THEN a2..a2
    ELSE Max(Ceil(a2 * (cfg.err_den - cfg.err_num), cfg.err_den), b_match_len)
           .. Min(Floor(a2 * cfg.err_den, cfg.err_den - cfg.err_num), b_len)

\* What one position contributes: the geometry a1, a2, a3, b1, the asserted
\* conditions and the candidates, one for every possible b2 that fits in b.
PositionHit(m, cfg, cns, pos, a_match_len, b_match_len, debug, inclusion) ==
    LET position == IF inclusion THEN pos ELSE pos + 1
        found    == IF inclusion
                    THEN find_occurrence_containing(m, position)
                    ELSE << id_for(m, position), position >>
        id_b     == found[1]
        index_b  == found[2]
        a_len    == Len(cns.pattern)
        b_len    == get_length(m, id_b)
        a2       == a_match_len + cns.blind_a_chars
        a1       == IF inclusion THEN 0 ELSE a_len - a2
        a3       == a_len - a1 - a2
        b1       == IF inclusion THEN position - index_b ELSE 0
        new_debug == debug \o << " incl ", inclusion, " blind ", cns.blind_a_chars >>
    IN  IF SkipsId(cfg, cns.id_a, id_b)
        THEN [ skipped |-> TRUE, a3_ok |-> TRUE, a1b1_ok |-> TRUE, cands |-> {} ]
        ELSE [ skipped |-> FALSE,
               a3_ok   |-> (a3 = 0),
               a1b1_ok |-> (a1 * b1 = 0),
               cands   |-> { [ id_b            |-> id_b,
                               overlap_a       |-> a2,
                               overlap_b       |-> b2,
                               overhang_left_a |-> a1 - b1,
                               debug_str       |-> new_debug ] :
                             b2 \in { x \in PossibleB2s(cfg, a2, b_match_len, b_len) :
                                        b_len - b1 - x >= 0 } } ]

\* add_candidates_from_positions: the candidates of all positions and whether
\* both assertions held at every position that was not skipped
add_candidates_from_positions(m, cfg, cns, positions, a_match_len, b_match_len, debug, inclusion) ==
    LET hits == { PositionHit(m, cfg, cns, pos, a_match_len, b_match_len,
                              debug, inclusion) : pos \in positions }
    IN  [ cands   |-> UNION { h.cands : h \in hits },
          a3_ok   |-> \A h \in hits : h.a3_ok,
          a1b1_ok |-> \A h \in hits : h.a1b1_ok ]

\* completed_blocks: the blocks of the filter that lie behind position p_i
CompletedBlocks(cns, p_i) ==
    IF p_i \in DOMAIN cns.block_id_lookup
    THEN cns.block_id_lookup[p_i] - cns.first_block_id
    ELSE cns.patt_blocks - cns.first_block_id

\* a plausible slip: the bound of the filter policy alone, without the hard cap
PermittedErrors_PolicyOnly(cns, p_i) ==
    filter_func(CompletedBlocks(cns, p_i), cns.patt_blocks)

PermittedErrors(cns, p_i) ==
    Min(cns.hard_error_cap, filter_func(CompletedBlocks(cns, p_i), cns.patt_blocks))

\* the interval of the match extended by the character a in front
NextInterval(m, bwtv, f, a) ==
    LET lessa == less(m.text, a)
    IN  [ lower |-> lessa + (IF f.lower > 0 THEN occ(bwtv, f.lower - 1, a) ELSE 0),
          upper |-> lessa + occ(bwtv, f.upper, a) - 1 ]

\* the calls one alphabet symbol makes: the substitution, then the insertion
SymbolCalls(m, cfg, bwtv, cns, f, a) ==
    LET permitted_errors == PermittedErrors(cns, f.p_i)
        p_char         == cns.pattern[f.p_i + 1]
        next_interval  == NextInterval(m, bwtv, f, a)
        recurse_errors == IF p_char = a /\ a # READ_ERR THEN f.errors ELSE f.errors + 1
        debug_a        == IF p_char = a THEN a ELSE smaller(a)
        substitution   ==
            IF recurse_errors <= permitted_errors
            THEN << [ errors         |-> recurse_errors,
                      p_i            |-> f.p_i - 1,
                      last_operation |-> "Substitution",
                      a_match_len    |-> f.a_match_len + 1,
                      b_match_len    |-> f.b_match_len + 1,
                      lower          |-> next_interval.lower,
                      upper          |-> next_interval.upper,
                      debug          |-> << debug_a >> \o f.debug ] >>
            ELSE << >>
        insertion ==
            IF /\ f.errors < permitted_errors
               /\ cfg.edit_distance
               /\ allows_insertion(f.last_operation)
               /\ p_char # a
            THEN << [ errors         |-> f.errors + 1,
                      p_i            |-> f.p_i,
                      last_operation |-> "Insertion",
                      a_match_len    |-> f.a_match_len,
                      b_match_len    |-> f.b_match_len + 1,
                      lower          |-> next_interval.lower,
                      upper          |-> next_interval.upper,
                      debug          |-> << debug_a, "." >> \o f.debug ] >>
            ELSE << >>
    IN  substitution \o insertion

RECURSIVE AlphabetCalls(_, _, _, _, _, _)
AlphabetCalls(m, cfg, bwtv, cns, f, symbols) ==
    IF symbols = << >> THEN << >>
    ELSE SymbolCalls(m, cfg, bwtv, cns, f, Head(symbols))
            \o AlphabetCalls(m, cfg, bwtv, cns, f, Tail(symbols))

\* a plausible slip: the Deletion call stays at the position of the query
DeletionCall_NoStep(cfg, cns, f) ==
    IF /\ cfg.edit_distance
       /\ f.errors < PermittedErrors(cns, f.p_i)
       /\ ~(f.p_i <= -1)
       /\ allows_deletion(f.last_operation)
    THEN << [ errors         |-> f.errors + 1,
              p_i            |-> f.p_i,
              last_operation |-> "Deletion",
              a_match_len    |-> f.a_match_len + 1,
              b_match_len    |-> f.b_match_len,
              lower          |-> f.lower,
              upper          |-> f.upper,
              debug          |-> << "_" >> \o f.debug ] >>
    ELSE << >>

DeletionCall(cfg, cns, f) ==
    IF /\ cfg.edit_distance
       /\ f.errors < PermittedErrors(cns, f.p_i)
       /\ ~(f.p_i <= -1)
       /\ allows_deletion(f.last_operation)
    THEN << [ errors         |-> f.errors + 1,
              p_i            |-> f.p_i - 1,
              last_operation |-> "Deletion",
              a_match_len    |-> f.a_match_len + 1,
              b_match_len    |-> f.b_match_len,
              lower          |-> f.lower,
              upper          |-> f.upper,
              debug          |-> << "_" >> \o f.debug ] >>
    ELSE << >>

NoHit == [ cands |-> {}, a3_ok |-> TRUE, a1b1_ok |-> TRUE ]

\* a plausible slip: the inclusions are added at every call that may add
\* candidates, not only once the pattern is finished
EmitsInclusions_Early(cfg, f, emits) == cfg.inclusions /\ emits

\* a plausible slip: the inclusions are added whatever the configuration says
EmitsInclusions_Always(cfg, f, emits) == f.p_i <= -1 /\ emits

\* whether the call adds the inclusion candidates: at the end of the pattern,
\* when the configuration asks for inclusions and candidates are allowed
EmitsInclusions(cfg, f, emits) == f.p_i <= -1 /\ cfg.inclusions /\ emits

\* One call of recurse_candidates without the calls it makes: the candidates
\* it adds, whether its assertions held, and the calls it makes, in order.
recurse_candidates(m, cfg, suffixes, bwtv, cns, f) ==
    IF f.lower > f.upper
    THEN [ cands |-> {}, a3_ok |-> TRUE, a1b1_ok |-> TRUE, calls |-> << >> ]
    ELSE
    LET completed_blocks   == CompletedBlocks(cns, f.p_i)
        generous_match_len == Max(f.a_match_len, f.b_match_len) + 1
        cand_condition_satisfied ==
            candidate_condition(generous_match_len, completed_blocks,
                                cfg.thresh, f.errors)
        emits == cand_condition_satisfied /\ allows_candidates(f.last_operation)
        lessd == less(m.text, "$")
        dollar_lower ==
            lessd + (IF f.lower > 0 THEN occ(bwtv, f.lower - 1, "$") ELSE 0)
        dollar_upper == lessd + occ(bwtv, f.upper, "$")
        overlaps ==
            IF emits
            THEN add_candidates_from_positions(m, cfg, cns,
                     IntervalOcc(suffixes, dollar_lower, dollar_upper),
                     f.a_match_len, f.b_match_len, f.debug, FALSE)
            ELSE NoHit
        pattern_finished == f.p_i <= -1
        inclusions ==
            IF EmitsInclusions(cfg, f, emits)
            THEN add_candidates_from_positions(m, cfg, cns,
                     IntervalOcc(suffixes, f.lower, f.upper + 1),
                     f.a_match_len, f.b_match_len, f.debug, TRUE)
            ELSE NoHit
    IN  [ cands   |-> overlaps.cands \cup inclusions.cands,
          a3_ok   |-> overlaps.a3_ok /\ inclusions.a3_ok,
          a1b1_ok |-> overlaps.a1b1_ok /\ inclusions.a1b1_ok,
          calls   |-> IF pattern_finished THEN << >>
                      ELSE AlphabetCalls(m, cfg, bwtv, cns, f, alphabet(cfg))
                              \o DeletionCall(cfg, cns, f) ]

\* the SearchConstants of the filter that starts at block block_id
SearchConstants(m, cfg, id_a, block_lengths, block_id, p_i) ==
    LET pattern  == get_string(m, id_a)
        patt_len == Len(pattern)
    IN  [ pattern         |-> pattern,
          hard_error_cap  |-> Floor(patt_len * cfg.err_num, cfg.err_den),
          block_id_lookup |-> get_block_id_lookup(block_lengths),
          id_a            |-> id_a,
          first_block_id  |-> block_id,
          patt_blocks     |-> Len(block_lengths),
          blind_a_chars   |-> patt_len - p_i - 1,
          max_b_len       |-> IF cfg.edit_distance
                              THEN Floor(patt_len * cfg.err_den, cfg.err_den - cfg.err_num)
                              ELSE patt_len ]

\* the first call of a filter: the full interval, nothing matched
InitialCall(m, p_i) ==
    [ errors         |-> 0,
      p_i            |-> p_i,
      last_operation |-> "Initial",
      a_match_len    |-> 0,
      b_match_len    |-> 0,
      lower          |-> 0,
      upper          |-> Size(m.text) - 1,
      debug          |-> << >> ]

\* ------------------------------------------------- structs.rs: Candidate
\* overhang_left_a is a1 - b1, one of the two being zero
a1(c) == Max(c.overhang_left_a, 0)
b1(c) == Max(0 - c.overhang_left_a, 0)
a2(c) == c.overlap_a
b2(c) == c.overlap_b
a3(c, a_len) == a_len - a1(c) - a2(c)
b3(c, b_len) == b_len - b1(c) - b2(c)

\* ------------------------------------------------- structs.rs: Solution
SolutionKey(s) ==
    << s.id_a, s.id_b, s.orientation, s.overhang_left_a, s.overhang_right_b,
       s.overlap_a, s.overlap_b >>

\* a plausible slip: the derived equality, which compares the error count too
SolutionEq_WithErrors(s, t) ==
    SolutionKey(s) = SolutionKey(t) /\ s.errors = t.errors

\* impl PartialEq for Solution
SolutionEq(s, t) == SolutionKey(s) = SolutionKey(t)

\* #[derive(PartialOrd, Ord)] on Orientation: Normal < Reversed
OrientationRank(o) == IF o = "Normal" THEN 0 ELSE 1

\* the comparison of two tuples of numbers, field by field: -1, 0 or 1
RECURSIVE TupleCmp(_, _)
TupleCmp(x, y) ==
    IF x = << >> THEN 0
    ELSE IF Head(x) < Head(y) THEN -1
    ELSE IF Head(x) > Head(y) THEN 1
    ELSE TupleCmp(Tail(x), Tail(y))

\* impl Ord for Solution
SolutionCmp(s, t) ==
    TupleCmp(<< s.id_a, s.id_b, OrientationRank(s.orientation), s.overhang_left_a,
                s.overhang_right_b, s.overlap_a, s.overlap_b >>,
             << t.id_a, t.id_b, OrientationRank(t.orientation), t.overhang_left_a,
                t.overhang_right_b, t.overlap_a, t.overlap_b >>)

\* impl Hash for Solution: what is fed to the hasher, in order
SolutionHash(s) ==
    << s.id_a, s.id_b, s.orientation, s.overlap_a, s.overlap_b,
       s.overhang_left_a, s.overhang_right_b >>

\* a plausible slip: a set that keeps the first Solution of every pair of ids
SolutionInsert_OnePerPair(set, s) ==
    IF \E t \in set : t.id_a = s.id_a /\ t.id_b = s.id_b
    THEN set
    ELSE set \cup {s}

\* HashSet<Solution>::insert: the entry is found by its hash and equality; an
\* entry equal to s keeps its place and s is dropped
SolutionInsert(set, s) ==
    IF \E t \in set : SolutionHash(t) = SolutionHash(s) /\ SolutionEq(t, s)
    THEN set
    ELSE set \cup {s}

v_flip(s) ==
    [s EXCEPT !.id_a = s.id_b, !.id_b = s.id_a,
              !.overlap_a = s.overlap_b, !.overlap_b = s.overlap_a,
              !.overhang_left_a = 0 - s.overhang_left_a,
              !.overhang_right_b = 0 - s.overhang_right_b]

h_flip(s) ==
    [s EXCEPT !.id_a = companion_id(s.id_a), !.id_b = companion_id(s.id_b),
              !.overhang_left_a = 0 - s.overhang_right_b,
              !.overhang_right_b = 0 - s.overhang_left_a]

mirror_horizontally(s) ==
    [s EXCEPT !.overhang_left_a = 0 - s.overhang_right_b,
              !.overhang_right_b = 0 - s.overhang_left_a]

\* ------------------------------------------------- verification.rs
\* std::u32::MAX, the undefined distance.  The integers of the model checker end at
\* 2^31 - 1, which stands for it: it is above every count of the model.
U32Max == 2147483647

\* the comparison of two names (strings of characters given by their bytes)
RECURSIVE NameCmp(_, _)
NameCmp(x, y) ==
    IF x = << >> /\ y = << >> THEN 0
    ELSE IF x = << >> THEN -1
    ELSE IF y = << >> THEN 1
    ELSE IF ByteOf(Head(x)) < ByteOf(Head(y)) THEN -1
    ELSE IF ByteOf(Head(x)) > ByteOf(Head(y)) THEN 1
    ELSE NameCmp(Tail(x), Tail(y))

id_order_ok(sol, m) ==
    NameCmp(get_name_for(m, sol.id_a), get_name_for(m, sol.id_b)) # 1

\* hamming(a, b) of two strings of one length
hamming(x, y) == Cardinality({ i \in 1..Len(x) : x[i] # y[i] })

RECURSIVE levenshtein(_, _)
levenshtein(x, y) ==
    IF x = << >> THEN Len(y)
    ELSE IF y = << >> THEN Len(x)
    ELSE Min(Min(levenshtein(Tail(x), y) + 1, levenshtein(x, Tail(y)) + 1),
             levenshtein(Tail(x), Tail(y)) + (IF Head(x) = Head(y) THEN 0 ELSE 1))

error_at_pos_in_both(a_part, b_part, first) ==
    LET a_ind == IF first THEN 1 ELSE Len(a_part)
        b_ind == IF first THEN 1 ELSE Len(b_part)
    IN  IF a_part[a_ind] # b_part[b_ind] THEN 1
        ELSE IF a_part[a_ind] = READ_ERR THEN 1 ELSE 0

\* a plausible slip: the undefined distance is the difference of the lengths
modified_levenshtein_LengthGap(a_part, b_part) ==
    IF Len(a_part) = Len(b_part) /\ Len(a_part) <= 2
    THEN (IF Len(a_part) >= 1 THEN error_at_pos_in_both(a_part, b_part, TRUE) ELSE 0)
         + (IF Len(a_part) >= 2 THEN error_at_pos_in_both(a_part, b_part, FALSE) ELSE 0)
    ELSE IF Len(a_part) < 2 \/ Len(b_part) < 2
    THEN Max(Len(a_part), Len(b_part)) - Min(Len(a_part), Len(b_part))
    ELSE levenshtein(SubSeq(a_part, 2, Len(a_part) - 1),
                     SubSeq(b_part, 2, Len(b_part) - 1))
         + error_at_pos_in_both(a_part, b_part, TRUE)
         + error_at_pos_in_both(a_part, b_part, FALSE)

\* a plausible slip: the last position is scored whenever there is a first one
modified_levenshtein_LastTwice(a_part, b_part) ==
    IF Len(a_part) = Len(b_part) /\ Len(a_part) <= 2
    THEN (IF Len(a_part) >= 1 THEN error_at_pos_in_both(a_part, b_part, TRUE) ELSE 0)
         + (IF Len(a_part) >= 1 THEN error_at_pos_in_both(a_part, b_part, FALSE) ELSE 0)
    ELSE IF Len(a_part) < 2 \/ Len(b_part) < 2
    THEN U32Max
    ELSE levenshtein(SubSeq(a_part, 2, Len(a_part) - 1),
                     SubSeq(b_part, 2, Len(b_part) - 1))
         + error_at_pos_in_both(a_part, b_part, TRUE)
         + error_at_pos_in_both(a_part, b_part, FALSE)

modified_levenshtein(a_part, b_part) ==
    IF Len(a_part) = Len(b_part) /\ Len(a_part) <= 2
    THEN (IF Len(a_part) >= 1 THEN error_at_pos_in_both(a_part, b_part, TRUE) ELSE 0)
         + (IF Len(a_part) >= 2 THEN error_at_pos_in_both(a_part, b_part, FALSE) ELSE 0)
    ELSE IF Len(a_part) < 2 \/ Len(b_part) < 2
    THEN U32Max
    ELSE levenshtein(SubSeq(a_part, 2, Len(a_part) - 1),
                     SubSeq(b_part, 2, Len(b_part) - 1))
         + error_at_pos_in_both(a_part, b_part, TRUE)
         + error_at_pos_in_both(a_part, b_part, FALSE)

\* a plausible slip: the sides are never swapped, the rest as in the code
translate_solution_to_external_NoSwap(sol, cfg, m) ==
    IF sol.id_a = sol.id_b
    THEN [ sol |-> sol, failed |-> "id_a != id_b" ]
    ELSE IF cfg.reversals /\ sol.id_a = companion_id(sol.id_b)
    THEN [ sol |-> sol, failed |-> "id_a != companion_id(id_b)" ]
    ELSE
    LET s2 == IF cfg.reversals /\ for_reversed_string(sol.id_a) THEN h_flip(sol) ELSE sol
    IN  [ sol |-> mirror_horizontally(s2), failed |-> "" ]

\* The transforms of translate_solution_to_external in order; failed names the
\* first assertion that does not hold ("" when all hold), sol the Solution as
\* far as it got.
translate_solution_to_external(sol, cfg, m) ==
    IF sol.id_a = sol.id_b
    THEN [ sol |-> sol, failed |-> "id_a != id_b" ]
    ELSE IF cfg.reversals /\ sol.id_a = companion_id(sol.id_b)
    THEN [ sol |-> sol, failed |-> "id_a != companion_id(id_b)" ]
    ELSE
    LET s1 == IF ~id_order_ok(sol, m) THEN v_flip(sol) ELSE sol
        s2 == IF cfg.reversals /\ for_reversed_string(s1.id_a) THEN h_flip(s1) ELSE s1
        s3 == mirror_horizontally(s2)
    IN  IF ~id_order_ok(s1, m)
        THEN [ sol |-> s1, failed |-> "id_order_ok" ]
        ELSE IF cfg.reversals /\ for_reversed_string(s2.id_a)
        THEN [ sol |-> s2, failed |-> "!for_reversed_string(id_a)" ]
        ELSE IF ~(~cfg.reversals \/ s3.id_a % 2 = 0)
        THEN [ sol |-> s3, failed |-> "id_a % 2 == 0" ]
        ELSE [ sol |-> s3, failed |-> "" ]

solution_from_candidate(c, id_a, errors, m, cfg) ==
    LET a_len == get_length(m, id_a)
        b_len == get_length(m, c.id_b)
    IN  translate_solution_to_external(
            [ id_a             |-> id_a,
              id_b             |-> c.id_b,
              orientation      |-> relative_orientation(id_a, c.id_b, cfg.reversals),
              overlap_a        |-> c.overlap_a,
              overlap_b        |-> c.overlap_b,
              overhang_left_a  |-> c.overhang_left_a,
              overhang_right_b |-> b3(c, b_len) - a3(c, a_len),
              errors           |-> errors,
              cigar            |-> << >> ],
            cfg, m)

\* k_limit: floor(err_rate * max(overlap_a, overlap_b))
KLimit(c, cfg) == Floor(cfg.err_num * Max(c.overlap_a, c.overlap_b), cfg.err_den)

\* the error count verify computes for a candidate whose ranges lie in the
\* two strings
CandidateErrors(id_a, c, cfg, m) ==
    LET a_part == SubSeq(get_string(m, id_a), a1(c) + 1, a1(c) + a2(c))
        b_part == SubSeq(get_string(m, c.id_b), b1(c) + 1, b1(c) + b2(c))
    IN  IF cfg.edit_distance
        THEN modified_levenshtein(a_part, b_part)
        ELSE hamming(a_part, b_part)

\* verify: failed names the assertion or bounds check that does not hold (""
\* when all hold); accepted says whether a Solution is returned, and sol is it.
verify(id_a, c, cfg, m) ==
    LET a_len  == get_length(m, id_a)
        b_len  == get_length(m, c.id_b)
        errors == CandidateErrors(id_a, c, cfg, m)
        none   == [ id_a |-> id_a, id_b |-> c.id_b ]
    IN  IF a3(c, a_len) # 0
        THEN [ failed |-> "verify: a3 == 0", accepted |-> FALSE, errors |-> 0, sol |-> none ]
        ELSE IF a1(c) + a2(c) > a_len \/ b1(c) + b2(c) > b_len
        THEN [ failed |-> "slice", accepted |-> FALSE, errors |-> 0, sol |-> none ]
        ELSE IF ~cfg.edit_distance /\ a2(c) # b2(c)
        THEN [ failed |-> "a_part.len() == b_part.len()", accepted |-> FALSE,
               errors |-> 0, sol |-> none ]
        ELSE IF errors <= KLimit(c, cfg)
        THEN LET t == solution_from_candidate(c, id_a, errors, m, cfg)
             IN  [ failed |-> t.failed, accepted |-> (t.failed = ""),
                   errors |-> errors, sol |-> t.sol ]
        ELSE [ failed |-> "", accepted |-> FALSE, errors |-> errors, sol |-> none ]

\* ------------------------------------------------- the whole search, at once
\* The calls of one filter run to their end, depth first, in the order of the
\* source: the candidate set they leave and whether every assertion held.
RECURSIVE RunCalls(_, _, _, _, _, _, _)
RunCalls(m, cfg, suffixes, bwtv, cns, calls, acc) ==
    IF calls = << >> THEN acc
    ELSE LET r == recurse_candidates(m, cfg, suffixes, bwtv, cns, Head(calls))
         IN  IF ~(r.a3_ok /\ r.a1b1_ok)
             THEN [ cands |-> acc.cands, ok |-> FALSE ]
             ELSE RunCalls(m, cfg, suffixes, bwtv, cns, r.calls \o Tail(calls),
                           [ cands |-> CandidateInsertAll(acc.cands, r.cands),
                             ok    |-> TRUE ])

RECURSIVE RunFilters(_, _, _, _, _, _, _, _, _)
RunFilters(m, cfg, suffixes, bwtv, id, block_lengths, block_id, start, acc) ==
    IF block_id >= Len(block_lengths) \/ ~acc.ok THEN acc
    ELSE RunFilters(m, cfg, suffixes, bwtv, id, block_lengths, block_id + 1,
                    start - block_lengths[block_id + 1],
                    RunCalls(m, cfg, suffixes, bwtv,
                             SearchConstants(m, cfg, id, block_lengths, block_id, start),
                             << InitialCall(m, start) >>, acc))

\* generate_candidates for the query id
generate_candidates(m, cfg, suffixes, bwtv, id) ==
    LET patt_len == get_length(m, id)
    IN  RunFilters(m, cfg, suffixes, bwtv, id,
                   get_block_lengths(patt_len, cfg.thresh), 0, patt_len - 1,
                   [ cands |-> {}, ok |-> TRUE ])

RECURSIVE SolutionInsertAll(_, _)
SolutionInsertAll(set, new) ==
    IF new = {} THEN set
    ELSE LET s == CHOOSE x \in new : TRUE
         IN  SolutionInsertAll(SolutionInsert(set, s), new \ {s})

\* verify_all for the query id: no Solution set is returned when a call of
\* verify fails an assertion
verify_all(id, candidates, cfg, m) ==
    LET outcomes == { verify(id, c, cfg, m) : c \in candidates }
    IN  IF \E o \in outcomes : o.failed # ""
        THEN [ sols |-> {}, ok |-> FALSE ]
        ELSE [ sols |-> SolutionInsertAll({}, { o.sol : o \in { x \in outcomes : x.accepted } }),
               ok   |-> TRUE ]

\* ------------------------------------------------- the inputs
SeqChars == { "A", "T" }
Workers == { "w1", "w2" }

SeqsUpTo(n) == UNION { [1..k -> SeqChars] : k \in 1..n }

\* The first record is any sequence of up to MaxSeqLen characters that starts
\* with A (exchanging A and T in both records gives the runs of the inputs
\* that start with T); the second record is any sequence of up to three.
FirstSeqs == { s \in SeqsUpTo(MaxSeqLen) : s[1] = "A" }
SecondSeqs == UNION { [1..k -> SeqChars] : k \in { 1, 2, 3 } }

\* The configurations: both modes, with and without reversals and
\* inclusions, blocks of one and of two characters, an error rate of 1/2.
Configs ==
    { [ err_num       |-> 1,
        err_den       |-> 2,
        thresh        |-> t,
        edit_distance |-> ed,
        reversals     |-> rv,
        inclusions    |-> inc,
        n_alphabet    |-> FALSE ] :
      t \in { 1, 2 }, ed \in BOOLEAN, rv \in BOOLEAN, inc \in BOOLEAN }

\* the inputs: two records and a configuration
Inputs ==
    { [ records |-> << [ name |-> << "A" >>, seq |-> s0 ],
                       [ name |-> << "C" >>, seq |-> s1 ] >>,
        cfg     |-> c ] :
      s0 \in FirstSeqs, s1 \in SecondSeqs, c \in Configs }

\* ------------------------------------------------- the state
VARIABLES
    config,         \* the Config of the run
    maps,           \* the Maps: text, names, id -> index
    sa,             \* the suffix array of the text
    bwt,            \* the BWT of the text
    pc,             \* where the task of the query is
    id_a,           \* the query of the task
    block_lengths,  \* generate_candidates: the blocks of the pattern
    block_id,       \* generate_candidates: the filter of the loop
    p_i,            \* generate_candidates: where the filter starts
    cns,            \* the SearchConstants of the open filter
    stack,          \* the calls of recurse_candidates still to run, next first
    entered,        \* the call of recurse_candidates that ran last
    candidate_set,  \* generate_candidates: the HashSet<Candidate>
    to_verify,      \* verify_all: the candidates the loop has not reached
    outcome,        \* verify_all: what the last call of verify did
    solution_set,   \* verify_all: the HashSet<Solution>
    failed,         \* the assertion that ended the task ("" when none has)
    pending,        \* the queries no worker has taken
    wk,             \* every worker's task: its query and the sets it owns
    sink            \* the Solutions handed over by the tasks

shared == << config, maps, sa, bwt >>
pool == << pending, wk, sink >>
vars == << config, maps, sa, bwt, pc, id_a, block_lengths, block_id, p_i, cns,
           stack, entered, candidate_set, to_verify, outcome, solution_set,
           failed, pending, wk, sink >>

Ids == 0..(maps.num_ids - 1)

NoCns == [ id_a |-> -1 ]
NoCall == [ last_operation |-> "None" ]
NoOutcome == [ called |-> FALSE, accepted |-> FALSE ]
Idle == [ pc |-> "idle", id |-> -1, cands |-> {}, sols |-> {} ]

InitShared(input) ==
    LET m == read_and_prepare(input.records, input.cfg)
        suffixes == SuffixArray(m.text)
    IN  /\ config = input.cfg
        /\ maps = m
        /\ sa = suffixes
        /\ bwt = Bwt(m.text, suffixes)

InitTask ==
    /\ pc = "idle"
    /\ id_a = -1
    /\ block_lengths = << >>
    /\ block_id = 0
    /\ p_i = -1
    /\ cns = NoCns
    /\ stack = << >>
    /\ entered = NoCall
    /\ candidate_set = {}
    /\ to_verify = {}
    /\ outcome = NoOutcome
    /\ solution_set = {}
    /\ failed = ""

InitPool ==
    /\ pending = {}
    /\ wk = [w \in Workers |-> Idle]
    /\ sink = {}

Init ==
    /\ \E input \in Inputs : InitShared(input)
    /\ InitTask
    /\ InitPool

\* ------------------------------------------------- one task, step by step
\* generate_candidates is called for a query: the blocks, the empty set
StartTask(id) ==
    /\ pc = "idle"
    /\ id_a' = id
    /\ block_lengths' = get_block_lengths(get_length(maps, id), config.thresh)
    /\ block_id' = 0
    /\ p_i' = get_length(maps, id) - 1
    /\ candidate_set' = {}
    /\ pc' = "loop"
    /\ UNCHANGED << cns, stack, entered, to_verify, outcome, solution_set, failed >>
    /\ UNCHANGED << shared, pool >>

\* the loop over the blocks opens the filter of the next block
OpenFilter ==
    /\ pc = "loop"
    /\ block_id < Len(block_lengths)
    /\ cns' = SearchConstants(maps, config, id_a, block_lengths, block_id, p_i)
    /\ stack' = << InitialCall(maps, p_i) >>
    /\ pc' = "recurse"
    /\ UNCHANGED << id_a, block_lengths, block_id, p_i, entered, candidate_set,
                    to_verify, outcome, solution_set, failed >>
    /\ UNCHANGED << shared, pool >>

\* the next call of recurse_candidates runs up to the calls it makes
RecurseCall ==
    /\ pc = "recurse"
    /\ stack # << >>
    /\ LET r == recurse_candidates(maps, config, sa, bwt, cns, Head(stack))
       IN  /\ entered' = Head(stack)
           /\ IF r.a3_ok /\ r.a1b1_ok
              THEN /\ candidate_set' = CandidateInsertAll(candidate_set, r.cands)
                   /\ stack' = r.calls \o Tail(stack)
                   /\ pc' = pc
                   /\ failed' = failed
              ELSE /\ candidate_set' = candidate_set
                   /\ stack' = << >>
                   /\ pc' = "panicked"
                   /\ failed' = IF ~r.a3_ok THEN "search: a3 == 0"
                                ELSE "search: a1 * b1 == 0"
    /\ UNCHANGED << id_a, block_lengths, block_id, p_i, cns, to_verify, outcome,
                    solution_set >>
    /\ UNCHANGED << shared, pool >>

\* the first call of the filter has returned: the next filter is shorter
FilterReturn ==
    /\ pc = "recurse"
    /\ stack = << >>
    /\ p_i' = p_i - block_lengths[block_id + 1]
    /\ block_id' = block_id + 1
    /\ pc' = "loop"
    /\ UNCHANGED << id_a, block_lengths, cns, stack, entered, candidate_set,
                    to_verify, outcome, solution_set, failed >>
    /\ UNCHANGED << shared, pool >>

\* generate_candidates returns its set and verify_all starts on it
ReturnCandidates ==
    /\ pc = "loop"
    /\ block_id >= Len(block_lengths)
    /\ to_verify' = candidate_set
    /\ solution_set' = {}
    /\ pc' = "verify"
    /\ UNCHANGED << id_a, block_lengths, block_id, p_i, cns, stack, entered,
                    candidate_set, outcome, failed >>
    /\ UNCHANGED << shared, pool >>

\* verify_all takes the next candidate of the set; the order of a HashSet is
\* arbitrary and fixed, as the order of CHOOSE is
VerifyOne ==
    /\ pc = "verify"
    /\ to_verify # {}
    /\ LET c == CHOOSE x \in to_verify : TRUE
           v == verify(id_a, c, config, maps)
       IN  /\ outcome' = [ called |-> TRUE, accepted |-> v.accepted, c |-> c,
                           errors |-> v.errors, sol |-> v.sol ]
           /\ to_verify' = to_verify \ {c}
           /\ failed' = v.failed
           /\ IF v.failed # ""
              THEN pc' = "panicked" /\ solution_set' = solution_set
              ELSE /\ pc' = pc
                   /\ solution_set' = IF v.accepted
                                      THEN SolutionInsert(solution_set, v.sol)
                                      ELSE solution_set
    /\ UNCHANGED << id_a, block_lengths, block_id, p_i, cns, stack, entered,
                    candidate_set >>
    /\ UNCHANGED << shared, pool >>

\* verify_all returns its set
VerifyAllReturn ==
    /\ pc = "verify"
    /\ to_verify = {}
    /\ pc' = "done"
    /\ UNCHANGED << id_a, block_lengths, block_id, p_i, cns, stack, entered,
                    candidate_set, to_verify, outcome, solution_set, failed >>
    /\ UNCHANGED << shared, pool >>

Next ==
    \/ \E id \in Ids : StartTask(id)
    \/ OpenFilter
    \/ RecurseCall
    \/ FilterReturn
    \/ ReturnCandidates
    \/ VerifyOne
    \/ VerifyAllReturn

Spec == Init /\ [][Next]_vars

\* ------------------------------------------------- searches with two errors
\* The inputs whose first record has one character more than MaxSeqLen, in
\* edit-distance mode with blocks of one character: the hard error cap of its
\* query is 2 and two insertions or deletions fit into one path.
LongInputs ==
    { [ records |-> << [ name |-> << "A" >>, seq |-> s0 ],
                       [ name |-> << "C" >>, seq |-> s1 ] >>,
        cfg     |-> c ] :
      s0 \in { s \in [1..(MaxSeqLen + 1) -> SeqChars] : s[1] = "A" },
      s1 \in SecondSeqs,
      c \in { x \in Configs : x.edit_distance /\ x.thresh = 1 /\ ~x.reversals } }

InitLong ==
    /\ \E input \in LongInputs : InitShared(input)
    /\ InitTask
    /\ InitPool

SpecLong == InitLong /\ [][Next]_vars

\* The runs whose end is followed: the long first records that repeat their
\* second character, against the second records of three characters.  The
\* task runs on: a step that can be taken is taken.
FairInputs == { i \in LongInputs : /\ \A k \in 2..Len(i.records[1].seq) : i.records[1].seq[k] = i.records[1].seq[2]
                                   /\ Len(i.records[2].seq) = 3 }

InitFair == /\ \E input \in FairInputs : InitShared(input)
            /\ InitTask
            /\ InitPool

\* a call on the stack is run, a candidate left to verify is verified
CallWaits == pc = "recurse" /\ stack # << >>
CandidateWaits == pc = "verify" /\ to_verify # {}

\* Weak fairness of every step of the task.  RecurseCall and VerifyOne can be
\* taken exactly when CallWaits and CandidateWaits hold (both are total on
\* their inputs and change the state), so their weak fairness is written
\* with these predicates in the place of ENABLED.
SpecFair ==
    /\ InitFair
    /\ [][Next]_vars
    /\ WF_vars(\E id \in Ids : StartTask(id))
    /\ WF_vars(OpenFilter)
    /\ WF_vars(FilterReturn)
    /\ WF_vars(ReturnCandidates)
    /\ WF_vars(VerifyAllReturn)
    /\ ([]<>(~CallWaits) \/ []<><<RecurseCall>>_vars)
    /\ ([]<>(~CandidateWaits) \/ []<><<VerifyOne>>_vars)

\* ------------------------------------------------- a Solution set on its own
\* Solutions that differ from one another in one field at most of those that
\* equality compares, each with two error counts and two edit summaries
BaseSolution ==
    [ id_a |-> 0, id_b |-> 1, orientation |-> "Normal", overhang_left_a |-> 1,
      overhang_right_b |-> 1, overlap_a |-> 2, overlap_b |-> 2, errors |-> 0,
      cigar |-> << >> ]

Geometries ==
    { BaseSolution,
      [BaseSolution EXCEPT !.id_a = 1, !.id_b = 0],
      [BaseSolution EXCEPT !.orientation = "Reversed"],
      [BaseSolution EXCEPT !.overhang_left_a = -1],
      [BaseSolution EXCEPT !.overhang_right_b = 0],
      [BaseSolution EXCEPT !.overlap_a = 1],
      [BaseSolution EXCEPT !.overlap_b = 1],
      [BaseSolution EXCEPT !.overlap_a = 1, !.overlap_b = 1] }

SomeSolutions ==
    { [g EXCEPT !.errors = e, !.cigar = cg] :
        g \in Geometries, e \in { 0, 1 }, cg \in { << >>, << "2M" >> } }

SetInput ==
    [ records |-> << [ name |-> << "A" >>, seq |-> << "A", "T" >> ],
                     [ name |-> << "C" >>, seq |-> << "T", "A" >> ] >>,
      cfg     |-> [ err_num |-> 1, err_den |-> 2, thresh |-> 1,
                    edit_distance |-> TRUE, reversals |-> FALSE,
                    inclusions |-> TRUE, n_alphabet |-> FALSE ] ]

\* verify_all has its empty set and is in its loop
InitSet ==
    /\ InitShared(SetInput)
    /\ pc = "verify"
    /\ id_a = 0
    /\ block_lengths = << >>
    /\ block_id = 0
    /\ p_i = -1
    /\ cns = NoCns
    /\ stack = << >>
    /\ entered = NoCall
    /\ candidate_set = {}
    /\ to_verify = {}
    /\ outcome = NoOutcome
    /\ solution_set = {}
    /\ failed = ""
    /\ InitPool

\* the loop of verify_all inserts the Solution a call of verify returned
InsertSolution(s) ==
    /\ pc = "verify"
    /\ Cardinality(SolutionInsert(solution_set, s)) <= MaxSetSize
    /\ solution_set' = SolutionInsert(solution_set, s)
    /\ outcome' = [ called |-> TRUE, accepted |-> TRUE, sol |-> s ]
    /\ UNCHANGED << id_a, block_lengths, block_id, p_i, cns, stack, entered,
                    candidate_set, to_verify, failed, pc >>
    /\ UNCHANGED << shared, pool >>

NextSet ==
    \/ \E s \in SomeSolutions : InsertSolution(s)
    \/ VerifyAllReturn

SpecSet == InitSet /\ [][NextSet]_vars

\* ------------------------------------------------- the distance on its own
\* the ranges: every string of up to MaxPartLen characters, N among them
PartChars == { "A", "T", "N" }
Parts == UNION { [1..k -> PartChars] : k \in 0..MaxPartLen }

\* edit-distance mode at error rates from 0 to 9/10
DistInputs ==
    { [ records |-> SetInput.records,
        cfg     |-> [SetInput.cfg EXCEPT !.err_num = r[1], !.err_den = r[2],
                                         !.n_alphabet = TRUE] ] :
      r \in { << 0, 1 >>, << 1, 2 >>, << 3, 4 >>, << 9, 10 >> } }

InitDist ==
    /\ \E input \in DistInputs : InitShared(input)
    /\ pc = "verify"
    /\ id_a = 0
    /\ block_lengths = << >>
    /\ block_id = 0
    /\ p_i = -1
    /\ cns = NoCns
    /\ stack = << >>
    /\ entered = NoCall
    /\ candidate_set = {}
    /\ to_verify = {}
    /\ outcome = NoOutcome
    /\ solution_set = {}
    /\ failed = ""
    /\ InitPool

\* verify on two ranges: the distance of edit-distance mode and the decision
\* against k_limit
VerifyParts(a_part, b_part) ==
    /\ pc = "verify"
    /\ ~outcome.called
    /\ LET errors == modified_levenshtein(a_part, b_part)
           c == [ overlap_a |-> Len(a_part), overlap_b |-> Len(b_part) ]
       IN  outcome' = [ called |-> TRUE, accepted |-> errors <= KLimit(c, config),
                        errors |-> errors, a_part |-> a_part, b_part |-> b_part ]
    /\ UNCHANGED << id_a, block_lengths, block_id, p_i, cns, stack, entered,
                    candidate_set, to_verify, solution_set, failed, pc >>
    /\ UNCHANGED << shared, pool >>

NextDist ==
    \/ \E a_part \in Parts, b_part \in Parts : VerifyParts(a_part, b_part)
    \/ VerifyAllReturn

SpecDist == InitDist /\ [][NextDist]_vars

\* ------------------------------------------------- the tasks on the workers
\* the inputs of the parallel runs: two records of two characters, blocks of
\* one character, every mode
ParInputs ==
    { [ records |-> << [ name |-> << "A" >>, seq |-> s0 ],
                       [ name |-> << "C" >>, seq |-> s1 ] >>,
        cfg     |-> c ] :
      s0 \in { s \in [1..2 -> SeqChars] : s[1] = "A" },
      s1 \in [1..2 -> SeqChars],
      c \in { x \in Configs : x.thresh = 1 } }

InitPar ==
    /\ \E input \in ParInputs : InitShared(input)
    /\ InitTask
    /\ pending = Ids
    /\ wk = [w \in Workers |-> Idle]
    /\ sink = {}

\* a free worker takes a query nobody has taken
Take(w, id) ==
    /\ wk[w].pc = "idle"
    /\ id \in pending
    /\ pending' = pending \ {id}
    /\ wk' = [wk EXCEPT ![w] = [ pc |-> "search", id |-> id, cands |-> {}, sols |-> {} ]]
    /\ UNCHANGED << sink, shared >>
    /\ UNCHANGED << pc, id_a, block_lengths, block_id, p_i, cns, stack, entered,
                    candidate_set, to_verify, outcome, solution_set, failed >>

\* the task of the worker runs generate_candidates on its query
Search(w) ==
    /\ wk[w].pc = "search"
    /\ LET g == generate_candidates(maps, config, sa, bwt, wk[w].id)
       IN  wk' = [wk EXCEPT ![w] =
                    IF g.ok THEN [@ EXCEPT !.pc = "verify", !.cands = g.cands]
                    ELSE [@ EXCEPT !.pc = "panicked"]]
    /\ UNCHANGED << pending, sink, shared >>
    /\ UNCHANGED << pc, id_a, block_lengths, block_id, p_i, cns, stack, entered,
                    candidate_set, to_verify, outcome, solution_set, failed >>

\* the task of the worker runs verify_all on its candidates
Verify(w) ==
    /\ wk[w].pc = "verify"
    /\ LET v == verify_all(wk[w].id, wk[w].cands, config, maps)
       IN  wk' = [wk EXCEPT ![w] =
                    IF v.ok THEN [@ EXCEPT !.pc = "deliver", !.sols = v.sols]
                    ELSE [@ EXCEPT !.pc = "panicked"]]
    /\ UNCHANGED << pending, sink, shared >>
    /\ UNCHANGED << pc, id_a, block_lengths, block_id, p_i, cns, stack, entered,
                    candidate_set, to_verify, outcome, solution_set, failed >>

\* the task hands its Solutions over and the worker is free
Deliver(w) ==
    /\ wk[w].pc = "deliver"
    /\ sink' = SolutionInsertAll(sink, wk[w].sols)
    /\ wk' = [wk EXCEPT ![w] = Idle]
    /\ UNCHANGED << pending, shared >>
    /\ UNCHANGED << pc, id_a, block_lengths, block_id, p_i, cns, stack, entered,
                    candidate_set, to_verify, outcome, solution_set, failed >>

\* a task that failed an assertion hands nothing over; the worker is free
Abort(w) ==
    /\ wk[w].pc = "panicked"
    /\ wk' = [wk EXCEPT ![w] = Idle]
    /\ UNCHANGED << pending, sink, shared >>
    /\ UNCHANGED << pc, id_a, block_lengths, block_id, p_i, cns, stack, entered,
                    candidate_set, to_verify, outcome, solution_set, failed >>

NextPar ==
    \/ \E w \in Workers, id \in Ids : Take(w, id)
    \/ \E w \in Workers : Search(w)
    \/ \E w \in Workers : Verify(w)
    \/ \E w \in Workers : Deliver(w)
    \/ \E w \in Workers : Abort(w)

SpecPar == InitPar /\ [][NextPar]_vars

\* ------------------------------------------------- the claims
\* the Solutions verify has returned in the task: those in the set and the last
Returned == solution_set \cup (IF outcome.accepted THEN { outcome.sol } ELSE {})

\* the threshold of a candidate, from the configured rate
ThresholdOf(c) ==
    Floor(config.err_num * Max(c.overlap_a, c.overlap_b), config.err_den)

\* C1: verify returns a Solution for a candidate if and only if the error
\* count it computed is at most floor(err_rate * max(overlap_a, overlap_b)).
C1_AcceptsIffWithinThreshold ==
    outcome.called =>
        (outcome.accepted <=> outcome.errors <= ThresholdOf(outcome.c))

\* What holds of verify: a call that returns returns a Solution exactly when the
\* error count is within the threshold.
ThresholdDecidesWhenVerifyReturns ==
    (outcome.called /\ failed = "") =>
        (outcome.accepted <=> outcome.errors <= ThresholdOf(outcome.c))

\* C2: in edit-distance mode every Candidate of the set of the query id_a has
\* id_b > id_a: a pair of ids is produced by the task of the lower id only.
C2_EditCandidatesAboveQuery ==
    config.edit_distance => \A c \in candidate_set : c.id_b > id_a

\* a task of edit-distance mode whose query is not the lowest id and which
\* has produced candidates
C2_Witness ==
    /\ config.edit_distance
    /\ pc = "verify"
    /\ id_a > 0
    /\ candidate_set # {}

\* C4: two hits that yield the same id_b, overlap_a, overlap_b and
\* overhang_left_a are one entry of the candidate set.
C4_OneEntryPerGeometry ==
    \A c, d \in candidate_set :
        ( /\ c.id_b = d.id_b
          /\ c.overlap_a = d.overlap_a
          /\ c.overlap_b = d.overlap_b
          /\ c.overhang_left_a = d.overhang_left_a ) => c = d

\* C5: in Hamming mode every Candidate generated and every Solution returned
\* has overlap_a = overlap_b, and the assertion of verify on the two lengths
\* never fails.
C5_HammingOverlapsEqual ==
    ~config.edit_distance =>
        /\ \A c \in candidate_set : c.overlap_a = c.overlap_b
        /\ \A s \in Returned : s.overlap_a = s.overlap_b
        /\ failed # "a_part.len() == b_part.len()"

\* a Solution of Hamming mode that canonicalization has turned around
C5_Witness ==
    /\ ~config.edit_distance
    /\ outcome.accepted
    /\ outcome.sol.id_a # id_a
    /\ outcome.sol.overlap_a > 1

\* C6: every Candidate has a query-side tail a3 of 0 and not both of a1 and b1
\* nonzero, and none of the three assertions on them ever fails.
C6_GeometryHolds ==
    /\ failed \notin { "search: a3 == 0", "search: a1 * b1 == 0", "verify: a3 == 0" }
    /\ pc # "idle" =>
         \A c \in candidate_set :
            /\ a3(c, get_length(maps, id_a)) = 0
            /\ a1(c) * b1(c) = 0
            /\ (c.overhang_left_a >= 0 \/ c.overlap_a = get_length(maps, id_a))

\* an inclusion found inside the matched sequence (b1 > 0) by a filter that
\* leaves characters of the query unmatched, and verified
C6_Witness ==
    /\ outcome.called
    /\ outcome.c.overhang_left_a < 0
    /\ \E k \in 1..MaxSeqLen :
         SubSeq(outcome.c.debug_str, Len(outcome.c.debug_str) - 1,
                Len(outcome.c.debug_str)) = << " blind ", k >>

\* C9: no Candidate pairs the query with itself or, with reversals, with its
\* companion, and the two assertions that open translate_solution_to_external
\* never fail.
C9_NoSelfNoCompanion ==
    /\ \A c \in candidate_set :
         /\ c.id_b # id_a
         /\ config.reversals => c.id_b # companion_id(id_a)
    /\ failed \notin { "id_a != id_b", "id_a != companion_id(id_b)" }

\* whether the sequence small occurs in the sequence big
Contains(big, small) ==
    \E off \in 0..(Len(big) - Len(small)) :
        SubSeq(big, off + 1, off + Len(small)) = small

\* whether one of the strings of the two ids is fully contained in the other
ContainedPair(a, b) ==
    \/ Contains(get_string(maps, a), get_string(maps, b))
    \/ Contains(get_string(maps, b), get_string(maps, a))

\* C7 as stated: with inclusion matching disabled, a pair in which one
\* sequence is fully contained inside the other yields no Candidate and no
\* Solution, wherever the contained sequence lies in the container.
C7_NoneForContainedPair ==
    (~config.inclusions /\ pc # "idle") =>
        /\ \A c \in candidate_set : ~ContainedPair(id_a, c.id_b)
        /\ \A s \in Returned : ~ContainedPair(s.id_a, s.id_b)

\* C7 as the code has it: with inclusion matching disabled every Candidate
\* starts at the start of the matched sequence (b1 = 0, overhang_left_a >= 0)
\* and none comes from the inclusion emission, and the two overhangs of every
\* Solution have one sign: nothing is reported that puts one sequence strictly
\* inside the other.  A containment flush with an end of the container is a
\* full-length suffix-prefix overlap and is still reported.
C7_NoInteriorWithoutInclusions ==
    (~config.inclusions /\ pc # "idle") =>
        /\ \A c \in candidate_set :
             /\ b1(c) = 0
             /\ c.overhang_left_a >= 0
             /\ c.debug_str[Len(c.debug_str) - 2] = FALSE
        /\ \A s \in Returned : s.overhang_left_a * s.overhang_right_b >= 0

\* inclusion matching disabled, the matched sequence lies wholly and flush in
\* the longer query, and the pair is reported as a Solution
C7_Witness ==
    /\ ~config.inclusions
    /\ outcome.accepted
    /\ outcome.c.overlap_b = get_length(maps, outcome.c.id_b)
    /\ get_length(maps, id_a) > get_length(maps, outcome.c.id_b)
    /\ outcome.errors = 0
    /\ ContainedPair(id_a, outcome.c.id_b)

\* C8: every Solution verify returns is canonical after the last transform:
\* the name of id_a is not greater than the name of id_b, and with reversals
\* id_a is not a reverse-complement entry; the three assertions on them in
\* translate_solution_to_external never fail.
C8_ReturnedCanonical ==
    /\ \A s \in Returned :
         /\ id_order_ok(s, maps)
         /\ config.reversals => (~for_reversed_string(s.id_a) /\ s.id_a % 2 = 0)
    /\ failed \notin { "id_order_ok", "!for_reversed_string(id_a)", "id_a % 2 == 0" }

\* a Solution of a reverse-complement query whose name is the greater one:
\* both the swap of the sides and the horizontal flip have acted
C8_Witness ==
    /\ config.reversals
    /\ outcome.accepted
    /\ for_reversed_string(id_a)
    /\ NameCmp(get_name_for(maps, id_a), get_name_for(maps, outcome.c.id_b)) > 0
    /\ outcome.sol.overhang_left_a # outcome.sol.overhang_right_b

\* whether two Solutions have the same ids, orientation, overhangs and overlaps
SameGeometry(s, t) ==
    /\ s.id_a = t.id_a
    /\ s.id_b = t.id_b
    /\ s.orientation = t.orientation
    /\ s.overhang_left_a = t.overhang_left_a
    /\ s.overhang_right_b = t.overhang_right_b
    /\ s.overlap_a = t.overlap_a
    /\ s.overlap_b = t.overlap_b

\* C3: a Solution set holds one entry for Solutions of the same ids,
\* orientation, overhangs and overlaps, whatever their error counts and edit
\* summaries, and holds an entry for every Solution inserted; equality,
\* ordering and hash of Solution agree and ignore errors and cigar.
C3_OneEntryPerGeometry ==
    /\ \A s, t \in solution_set : SameGeometry(s, t) => s = t
    /\ outcome.called => \E t \in solution_set : SameGeometry(t, outcome.sol)
    /\ \A s \in solution_set \cup (IF outcome.called THEN { outcome.sol } ELSE {}) :
         \A t \in solution_set :
            /\ SolutionEq(s, t) <=> SameGeometry(s, t)
            /\ SolutionEq(s, t) <=> (SolutionCmp(s, t) = 0)
            /\ SolutionCmp(s, t) = 0 - SolutionCmp(t, s)
            /\ SolutionEq(s, t) => SolutionHash(s) = SolutionHash(t)

\* a Solution was inserted whose geometry the set held with another error
\* count and another edit summary: the set has kept its entry
C3_Witness ==
    /\ outcome.called
    /\ outcome.sol \notin solution_set
    /\ Cardinality(solution_set) = MaxSetSize
    /\ \E t \in solution_set :
         /\ SameGeometry(t, outcome.sol)
         /\ t.errors # outcome.sol.errors
         /\ t.cigar # outcome.sol.cigar

\* the Solutions of the queries taken one after the other in the order of
\* their ids, a query whose task fails an assertion giving none
RECURSIVE InIdOrder(_, _)
InIdOrder(id, set) ==
    IF id >= maps.num_ids THEN set
    ELSE LET g == generate_candidates(maps, config, sa, bwt, id)
             v == IF g.ok THEN verify_all(id, g.cands, config, maps)
                  ELSE [ sols |-> {}, ok |-> FALSE ]
         IN  InIdOrder(id + 1, IF v.ok THEN SolutionInsertAll(set, v.sols) ELSE set)

AllDelivered == pending = {} /\ \A w \in Workers : wk[w].pc = "idle"

\* the global set is the one of the queries taken in the order of their ids
SameGlobalSet ==
    AllDelivered =>
        { SolutionKey(s) : s \in sink } = { SolutionKey(s) : s \in InIdOrder(0, {}) }

\* a step changes the sets of one task at most, and the sink only when a task
\* hands its Solutions over; the text, the maps and the index never change
OwnSetsOnly ==
    /\ shared' = shared
    /\ \A w, v \in Workers : (wk'[w] # wk[w] /\ v # w) => wk'[v] = wk[v]
    /\ sink' # sink => \E w \in Workers : wk[w].pc = "deliver" /\ wk'[w] = Idle

\* C10: whatever the order in which the workers take the queries and however
\* their steps interleave, the global set of Solutions, compared by ids,
\* orientation, overhangs and overlaps, is the same; no step touches the sets
\* of two tasks, and the text, the maps and the index are never modified.
C10_OrderIndependent == [](SameGlobalSet) /\ [][OwnSetsOnly]_vars

\* all tasks of a run with reversals are done and the global set holds
\* Solutions of several geometries
C10_Witness ==
    /\ AllDelivered
    /\ Cardinality(sink) >= 2
    /\ \E s, t \in sink : s.overhang_left_a # t.overhang_left_a
    /\ config.reversals

\* C11: in edit-distance mode, on two ranges of unequal lengths one of which
\* is shorter than 2, modified_levenshtein returns the sentinel u32::MAX and
\* verify rejects, at every error rate below 1 and every length.
C11_UndefinedDistanceRejected ==
    ( /\ outcome.called
      /\ Len(outcome.a_part) # Len(outcome.b_part)
      /\ (Len(outcome.a_part) < 2 \/ Len(outcome.b_part) < 2) ) =>
        /\ outcome.errors = U32Max
        /\ ~outcome.accepted
        /\ failed = ""

\* a range of one character against a longer one at the rate 9/10
C11_Witness ==
    /\ outcome.called
    /\ Len(outcome.a_part) = 1
    /\ Len(outcome.b_part) = MaxPartLen
    /\ config.err_num = 9
    /\ outcome.errors = U32Max

\* the steps of the path of a call, the last step first, read off its trace:
\* "_" is a Deletion, a character before "." an Insertion, any other
\* character a Substitution
RECURSIVE StepsOf(_)
StepsOf(debug) ==
    IF debug = << >> THEN << >>
    ELSE IF Head(debug) = "_" THEN << "Deletion" >> \o StepsOf(Tail(debug))
    ELSE IF Len(debug) >= 2 /\ debug[2] = "."
         THEN << "Insertion" >> \o StepsOf(Tail(Tail(debug)))
    ELSE << "Substitution" >> \o StepsOf(Tail(debug))

\* the path of the call that ran last
EnteredSteps == IF entered = NoCall THEN << >> ELSE StepsOf(entered.debug)

Indels == { "Insertion", "Deletion" }

\* C12 as stated: on every path every Insertion and every Deletion step
\* directly follows a Substitution step.
C12_IndelsOnlyAfterSubstitution ==
    \A i \in 1..Len(EnteredSteps) :
        EnteredSteps[i] \in Indels =>
            (i < Len(EnteredSteps) /\ EnteredSteps[i + 1] = "Substitution")

\* C12 as the code has it: an Insertion step directly follows a Substitution
\* or an Insertion step, a Deletion step directly follows a Substitution or a
\* Deletion step; neither is the first step of a filter, and neither follows
\* the other.  The path agrees with the last_operation of the call.
C12_IndelsAfterSubstitutionOrSame ==
    /\ \A i \in 1..Len(EnteredSteps) :
         EnteredSteps[i] \in Indels =>
            /\ i < Len(EnteredSteps)
            /\ EnteredSteps[i + 1] \in { "Substitution", EnteredSteps[i] }
    /\ EnteredSteps # << >> => entered.last_operation = EnteredSteps[1]

\* a call reached by two Insertion steps or two Deletion steps in a row, with
\* two errors and an interval that is not empty
C12_Witness ==
    /\ Len(EnteredSteps) >= 3
    /\ EnteredSteps[1] \in Indels
    /\ EnteredSteps[2] = EnteredSteps[1]
    /\ entered.errors = 2
    /\ entered.lower <= entered.upper

\* the hard cap of the query: floor(query_len * err_rate)
HardCap == Floor(get_length(maps, id_a) * config.err_num, config.err_den)

\* the position of the query at which the step into the call f was taken
StepTakenAt(f) == IF f.last_operation = "Insertion" THEN f.p_i ELSE f.p_i + 1

\* the bound under which the call f may be entered
EntryBound(f) ==
    IF f.last_operation = "Initial" THEN 0
    ELSE Min(HardCap, filter_func(CompletedBlocks(cns, StepTakenAt(f)), cns.patt_blocks))

\* the errors of a path, counted on its trace: the mismatches and insertions
\* are written in lower case, the deletions as "_"
ErrorsOf(debug) ==
    Cardinality({ i \in 1..Len(debug) : debug[i] \in { "a", "c", "g", "t", "n", "_" } })

\* C13: no call of recurse_candidates is made with more errors than
\* min(hard cap, bound of the filter policy at the step taken), whatever the
\* step; so every call and the path of every Candidate has at most
\* floor(query_len * err_rate) errors.
C13_ErrorsWithinBudget ==
    pc \in { "recurse", "loop", "verify" } =>
        /\ pc = "recurse" =>
             \A i \in 1..Len(stack) :
                /\ stack[i].errors <= EntryBound(stack[i])
                /\ stack[i].errors <= HardCap
                /\ stack[i].errors = ErrorsOf(stack[i].debug)
        /\ entered # NoCall => entered.errors <= HardCap
        /\ \A c \in candidate_set :
             ErrorsOf(SubSeq(c.debug_str, 1, Len(c.debug_str) - 4)) <= HardCap

\* the next call was made by a Deletion with as many errors as the hard cap
\* of 2 allows, at a step where the filter policy would have allowed more
C13_Witness ==
    /\ pc = "recurse"
    /\ stack # << >>
    /\ Head(stack).last_operation = "Deletion"
    /\ Head(stack).errors = 2
    /\ HardCap = 2
    /\ filter_func(CompletedBlocks(cns, StepTakenAt(Head(stack))), cns.patt_blocks) > 2
    /\ Head(stack).lower <= Head(stack).upper

\* whether the call that ran last is one of the open filter
EnteredInFilter ==
    /\ pc = "recurse"
    /\ entered # NoCall
    /\ ~(Len(stack) = 1 /\ Head(stack).last_operation = "Initial")

\* the ids of the sequences whose start the match of the call that ran last
\* reaches: the hits its suffix-prefix emission hands to the materializer
EnteredHitIds ==
    LET f == entered
        emits ==
            /\ f.lower <= f.upper
            /\ allows_candidates(f.last_operation)
            /\ candidate_condition(Max(f.a_match_len, f.b_match_len) + 1,
                                   CompletedBlocks(cns, f.p_i), config.thresh, f.errors)
        lessd == less(maps.text, "$")
        lower == lessd + (IF f.lower > 0 THEN occ(bwt, f.lower - 1, "$") ELSE 0)
        upper == lessd + occ(bwt, f.upper, "$")
    IN  IF emits
        THEN { id_for(maps, pos + 1) : pos \in IntervalOcc(sa, lower, upper) }
        ELSE {}

\* whether the candidate set holds a Candidate of the call that ran last for id_b
EnteredKept(id_b) ==
    \E c \in candidate_set :
        /\ c.id_b = id_b
        /\ c.debug_str = entered.debug \o << " incl ", FALSE, " blind ", cns.blind_a_chars >>

\* whether some overlap length on the side of id_b fits the hit
EnteredFits(id_b) ==
    \E x \in PossibleB2s(config, entered.a_match_len + cns.blind_a_chars,
                         entered.b_match_len, get_length(maps, id_b)) :
        x <= get_length(maps, id_b)

\* C14 as stated: in edit-distance mode a hit is discarded when id_b > id_a
\* and kept otherwise; in Hamming mode none is discarded for the order of ids.
C14_DiscardsHigherIds ==
    EnteredInFilter =>
        \A id_b \in EnteredHitIds \ { id_a } :
            /\ (config.edit_distance /\ id_b > id_a) => ~EnteredKept(id_b)
            /\ (~(config.edit_distance /\ id_b > id_a) /\ EnteredFits(id_b))
                  => EnteredKept(id_b)

\* C14 as the code has it: in edit-distance mode a hit is discarded when
\* id_b < id_a (the query id is the greater one) and kept when id_b > id_a;
\* in Hamming mode no hit is discarded for the order of the ids.
C14_DiscardsLowerIds ==
    EnteredInFilter =>
        \A id_b \in EnteredHitIds \ { id_a } :
            /\ (config.edit_distance /\ id_b < id_a) => ~EnteredKept(id_b)
            /\ (~(config.edit_distance /\ id_b < id_a) /\ EnteredFits(id_b))
                  => EnteredKept(id_b)

\* in edit-distance mode the call that ran last hit a sequence of a lower id,
\* and the set holds no Candidate for it
C14_Witness ==
    /\ EnteredInFilter
    /\ config.edit_distance
    /\ \E id_b \in EnteredHitIds : id_b < id_a /\ EnteredFits(id_b) /\ ~EnteredKept(id_b)

\* the score of a boundary position: 1 when the two characters differ or are
\* both the placeholder N, else 0
BoundaryScore(x, y) == IF x # y \/ x = "N" THEN 1 ELSE 0

\* a range without its first and last character
Interior(x) == SubSeq(x, 2, Len(x) - 1)

\* the Levenshtein distance, by the last characters of the two strings
RECURSIVE EditDistance(_, _)
EditDistance(x, y) ==
    IF Len(x) = 0 THEN Len(y)
    ELSE IF Len(y) = 0 THEN Len(x)
    ELSE LET fx == SubSeq(x, 1, Len(x) - 1)
             fy == SubSeq(y, 1, Len(y) - 1)
             keep == EditDistance(fx, fy) + (IF x[Len(x)] = y[Len(y)] THEN 0 ELSE 1)
         IN  Min(keep, Min(EditDistance(fx, y) + 1, EditDistance(x, fy) + 1))

\* C15: for two ranges of length >= 2 modified_levenshtein is the score of
\* the first position plus the score of the last position plus the
\* Levenshtein distance of the interiors; for ranges of one length 0, 1 or 2
\* it is the sum of the boundary scores alone, the one position of a range
\* of length 1 counted once.
C15_BoundariesPlusInterior ==
    outcome.called =>
        LET a == outcome.a_part
            b == outcome.b_part
        IN  /\ (Len(a) >= 2 /\ Len(b) >= 2) =>
                 outcome.errors = BoundaryScore(a[1], b[1])
                                  + BoundaryScore(a[Len(a)], b[Len(b)])
                                  + EditDistance(Interior(a), Interior(b))
            /\ (Len(a) = 0 /\ Len(b) = 0) => outcome.errors = 0
            /\ (Len(a) = 1 /\ Len(b) = 1) => outcome.errors = BoundaryScore(a[1], b[1])
            /\ (Len(a) = 2 /\ Len(b) = 2) =>
                 outcome.errors = BoundaryScore(a[1], b[1]) + BoundaryScore(a[2], b[2])

\* two ranges of different lengths, both of 2 or more, that start with N and
\* end with the same character, and whose interiors differ
C15_Witness ==
    /\ outcome.called
    /\ Len(outcome.a_part) = 3
    /\ Len(outcome.b_part) = 2
    /\ outcome.a_part[1] = "N"
    /\ outcome.b_part[1] = "N"
    /\ outcome.a_part[3] = outcome.b_part[2]
    /\ outcome.a_part[3] # "N"
    /\ outcome.errors = 2

\* how many steps of the kinds in ops a path has
CountSteps(steps, ops) == Cardinality({ i \in 1..Len(steps) : steps[i] \in ops })

\* the query characters of the open filter
FilterChars == Len(cns.pattern) - cns.blind_a_chars

\* a call of the open filter: every Substitution and Deletion step of its path
\* took one query position, every Insertion and Deletion step one error, and
\* the path has at most FilterChars + hard cap steps
PathBounded(f) ==
    LET steps == StepsOf(f.debug)
    IN  /\ f.p_i = FilterChars - 1 - CountSteps(steps, { "Substitution", "Deletion" })
        /\ f.p_i >= -1
        /\ f.errors >= CountSteps(steps, Indels)
        /\ f.errors <= HardCap
        /\ Len(steps) <= FilterChars + HardCap

AllPathsBounded ==
    pc = "recurse" => \A i \in 1..Len(stack) : PathBounded(stack[i])

\* the loop of generate_candidates opens the filter of block block_id, takes
\* the next block when the filter has returned, and ends after the last block
OneFilterPerBlock ==
    /\ (pc = "loop" /\ pc' = "recurse") =>
          (block_id < Len(block_lengths) /\ cns'.first_block_id = block_id)
    /\ (pc = "recurse" /\ pc' = "loop") => block_id' = block_id + 1
    /\ (pc = "loop" /\ pc' = "verify") => block_id = Len(block_lengths)

\* C16: every path of a filter has at most as many steps as the filter has
\* query characters plus the hard error cap, each Substitution or Deletion
\* taking one query position and each Insertion one error; every filter
\* returns, and generate_candidates returns after one filter per block.
C16_SearchTerminates ==
    /\ [](AllPathsBounded)
    /\ [][OneFilterPerBlock]_vars
    /\ (pc = "recurse") ~> (pc = "loop")
    /\ (pc = "loop") ~> (pc = "verify")

\* a call at the end of the query whose path is longer than the query: it
\* holds an Insertion, and a Deletion or a second Insertion
C16_Witness ==
    /\ EnteredInFilter
    /\ entered.p_i = -1
    /\ Len(EnteredSteps) > FilterChars
    /\ entered.errors = 2
    /\ cns.blind_a_chars = 0

=============================================================================
